---- MODULE Spec2Model ----
(***************************************************************************)
(* A model of cargo-instruments: the orchestration of one profiling run    *)
(* (app.rs), the detection of the Xcode Instruments installation, the      *)
(* parsing of its textual outputs (instruments.rs) and the resolution of   *)
(* the target to profile (opt.rs).                                         *)
(*                                                                         *)
(* Text is modelled as a sequence of one-character strings, so that        *)
(* splitting, trimming and prefix tests are computed, not assumed.         *)
(***************************************************************************)
EXTENDS Integers, Sequences, FiniteSets, TLC

\* ------------------------------------------------------------------ bounds

\* Largest number of '.'-separated pieces of a version text that is explored.
MaxComponents == 4

\* Largest number of lines of a template listing that is explored.
MaxLines == 5

\* Largest number of binaries, and of test-like outputs, of a compilation.
MaxOutputs == 2

\* Largest number of arguments forwarded to the profiled program.
MaxArgs == 2

\* ------------------------------------------------------------ text helpers

None == [some |-> FALSE]
Some(v) == [some |-> TRUE, val |-> v]

Ok(v) == [ok |-> TRUE, val |-> v]
Err(msg) == [ok |-> FALSE, err |-> msg]

Digits == {"0", "1", "2", "3", "4", "5", "6", "7", "8", "9"}
Letters == {"a", "b", "c", "r", "x"}
Whitespace == {" ", "\n", "\t"}

DigitVal(c) ==
    CASE c = "0" -> 0 [] c = "1" -> 1 [] c = "2" -> 2 [] c = "3" -> 3
      [] c = "4" -> 4 [] c = "5" -> 5 [] c = "6" -> 6 [] c = "7" -> 7
      [] c = "8" -> 8 [] c = "9" -> 9

Range(s) == {s[i] : i \in DOMAIN s}

\* s without its first n characters
Drop(s, n) == SubSeq(s, n + 1, Len(s))

\* str::starts_with
StartsWith(s, p) == Len(s) >= Len(p) /\ SubSeq(s, 1, Len(p)) = p

\* length of the longest prefix of s whose characters are all in cs
RECURSIVE PrefixLen(_, _)
PrefixLen(s, cs) ==
    IF s = <<>> \/ s[1] \notin cs THEN 0 ELSE 1 + PrefixLen(Tail(s), cs)

\* length of the longest suffix of s whose characters are all in cs
RECURSIVE SuffixLen(_, _)
SuffixLen(s, cs) ==
    IF s = <<>> \/ s[Len(s)] \notin cs THEN 0
    ELSE 1 + SuffixLen(SubSeq(s, 1, Len(s) - 1), cs)

\* str::trim_matches over a set of characters: strips them from both ends
TrimSet(s, cs) ==
    LET a == PrefixLen(s, cs)
    IN  IF a = Len(s) THEN <<>>
        ELSE SubSeq(s, a + 1, Len(s) - SuffixLen(s, cs))

\* str::trim
Trim(s) == TrimSet(s, Whitespace)

\* str::split(sep): the pieces between the separators, always at least one
RECURSIVE Split(_, _)
Split(s, sep) ==
    LET n == PrefixLen(s, Range(s) \ {sep})
    IN  IF n = Len(s) THEN <<s>>
        ELSE <<SubSeq(s, 1, n)>> \o Split(Drop(s, n + 1), sep)

\* the decimal value of a sequence of digits
RECURSIVE Decimal(_)
Decimal(ds) ==
    IF ds = <<>> THEN 0
    ELSE 10 * Decimal(SubSeq(ds, 1, Len(ds) - 1)) + DigitVal(ds[Len(ds)])

\* the pieces joined again with sep between them
RECURSIVE Join(_, _)
Join(pieces, sep) ==
    IF pieces = <<>> THEN <<>>
    ELSE IF Len(pieces) = 1 THEN pieces[1]
    ELSE pieces[1] \o <<sep>> \o Join(Tail(pieces), sep)

\* A byte that is not valid UTF-8; std::str::from_utf8 fails on a text holding it.
InvalidByte == "<ff>"

from_utf8_ok(bytes) == InvalidByte \notin Range(bytes)

\* ------------------------------------------------- semver::Version::parse

\* A numeric identifier at the start of s: at least one digit, no leading
\* zero before another digit.
NumericIdentifier(s) ==
    LET n == PrefixLen(s, Digits)
    IN  IF n = 0 \/ (n > 1 /\ s[1] = "0") THEN [ok |-> FALSE]
        ELSE [ok |-> TRUE, val |-> Decimal(SubSeq(s, 1, n)), rest |-> Drop(s, n)]

IdentChars == Digits \cup Letters \cup {"-", "."}

\* A pre-release or build identifier at the start of s: '.'-separated
\* non-empty segments; a pre-release's numeric segment has no leading zero.
Identifier(s, isPre) ==
    LET n == PrefixLen(s, IdentChars)
        ident == SubSeq(s, 1, n)
        segs == Split(ident, ".")
        bad(seg) == \/ seg = <<>>
                    \/ /\ isPre
                       /\ Range(seg) \subseteq Digits
                       /\ Len(seg) > 1
                       /\ seg[1] = "0"
    IN  IF n = 0 \/ \E i \in DOMAIN segs : bad(segs[i]) THEN [ok |-> FALSE]
        ELSE [ok |-> TRUE, val |-> ident, rest |-> Drop(s, n)]

\* What follows the patch number: an optional -pre, an optional +build, the end.
VersionSuffix(major, minor, patch, s) ==
    LET pre == IF StartsWith(s, <<"-">>) THEN Identifier(Tail(s), TRUE)
               ELSE [ok |-> TRUE, val |-> <<>>, rest |-> s]
    IN  IF ~pre.ok THEN Err("cannot parse version")
        ELSE LET build == IF StartsWith(pre.rest, <<"+">>)
                          THEN Identifier(Tail(pre.rest), FALSE)
                          ELSE [ok |-> TRUE, val |-> <<>>, rest |-> pre.rest]
             IN  IF ~build.ok \/ build.rest # <<>> THEN Err("cannot parse version")
                 ELSE Ok([major |-> major, minor |-> minor, patch |-> patch,
                          pre |-> pre.val, build |-> build.val])

\* semver::Version::parse: MAJOR.MINOR.PATCH[-PRE][+BUILD]
VersionParse(text) ==
    LET ma == NumericIdentifier(text)
    IN  IF ~ma.ok \/ ~StartsWith(ma.rest, <<".">>) THEN Err("cannot parse version")
        ELSE LET mi == NumericIdentifier(Tail(ma.rest))
             IN  IF ~mi.ok \/ ~StartsWith(mi.rest, <<".">>)
                 THEN Err("cannot parse version")
                 ELSE LET pa == NumericIdentifier(Tail(mi.rest))
                      IN  IF ~pa.ok THEN Err("cannot parse version")
                          ELSE VersionSuffix(ma.val, mi.val, pa.val, pa.rest)

\* ------------------------------------------------------- instruments.rs

\* semver_from_utf8: pads a version of one or two pieces with zeros
semver_from_utf8(version) ==
    IF ~from_utf8_ok(version) THEN Err("invalid utf-8")
    ELSE LET count == Len(Split(version, "."))
         IN  CASE count = 1 -> VersionParse(Trim(version) \o <<".", "0", ".", "0">>)
               [] count = 2 -> VersionParse(Trim(version) \o <<".", "0">>)
               [] count = 3 -> VersionParse(Trim(version))
               [] OTHER -> Err("invalid version")

\* get_macos_version: the outcome of `sw_vers -productVersion`, parsed.
\* sw.status is "io_error" (the command could not be run), "nonzero" or "success".
get_macos_version(sw) ==
    IF sw.status = "io_error" THEN Err("io error")
    ELSE IF sw.status # "success" THEN Err("macOS version cannot be determined")
    ELSE semver_from_utf8(sw.stdout)

\* Version::parse("10.15.0")
macos_xctrace_version ==
    [major |-> 10, minor |-> 15, patch |-> 0, pre |-> <<>>, build |-> <<>>]

\* semver's ordering a >= b, for a b that is a release without build metadata
\* (the only right-hand side the program compares with): the numbers decide,
\* and with equal numbers a pre-release comes before the release.
VersionGE(a, b) ==
    \/ a.major > b.major
    \/ a.major = b.major /\ a.minor > b.minor
    \/ a.major = b.major /\ a.minor = b.minor /\ a.patch > b.patch
    \/ a.major = b.major /\ a.minor = b.minor /\ a.patch = b.patch /\ a.pre = <<>>

NotInstalled ==
    "Xcode Instruments is not installed. Please install the Xcode Command Line Tools."

\* detect falling back to the legacy binary when the command line tools of a
\* recent macOS are missing
detect_with_fallback(sw, fs) ==
    LET cur_version == get_macos_version(sw)
    IN  IF ~cur_version.ok THEN cur_version
        ELSE IF VersionGE(cur_version.val, macos_xctrace_version) /\ fs.clt_git
             THEN Ok("XcTrace")
             ELSE IF fs.instruments_app THEN Ok("InstrumentsBinary")
                  ELSE Err(NotInstalled)

\* XcodeInstruments::detect. fs.clt_git and fs.instruments_app tell whether
\* /Library/Developer/CommandLineTools/usr/bin/git and /usr/bin/instruments exist.
detect(sw, fs) ==
    LET cur_version == get_macos_version(sw)
    IN  IF ~cur_version.ok THEN cur_version
        ELSE IF VersionGE(cur_version.val, macos_xctrace_version)
             THEN IF fs.clt_git THEN Ok("XcTrace") ELSE Err(NotInstalled)
             ELSE IF fs.instruments_app THEN Ok("InstrumentsBinary")
                  ELSE Err(NotInstalled)

\* ---------------------------------------------------- template listings

\* str::lines: the text split at line feeds, a final empty piece dropped and
\* a carriage return at the end of a line removed.
Lines(text) ==
    LET pieces == Split(text, "\n")
        kept == IF pieces[Len(pieces)] = <<>>
                THEN SubSeq(pieces, 1, Len(pieces) - 1) ELSE pieces
        strip(l) == IF l # <<>> /\ l[Len(l)] = "\r" THEN SubSeq(l, 1, Len(l) - 1) ELSE l
    IN  [i \in DOMAIN kept |-> strip(kept[i])]

\* number of leading TRUEs of a sequence of booleans
RECURSIVE LeadingTrue(_)
LeadingTrue(flags) ==
    IF flags = <<>> \/ ~flags[1] THEN 0 ELSE 1 + LeadingTrue(Tail(flags))

\* Iterator::take_while and Iterator::skip_while, given for each element of s
\* whether the predicate holds of it
TakeWhile(flags, s) == SubSeq(s, 1, LeadingTrue(flags))
SkipWhile(flags, s) == Drop(s, LeadingTrue(flags))

CouldNotList ==
    "Could not list templates. Please check your Xcode Instruments installation."
NoTemplates ==
    "No available templates. Please check your Xcode Instruments installation."

\* no_templates with the check left out
no_templates_unchecked(standard_templates) == FALSE

\* standard_templates.is_empty(): a listing without standard templates is an error
no_templates(standard_templates) == standard_templates = <<>>

\* parse_xctrace_template_list, given the outcome of `xcrun xctrace list templates`
parse_xctrace_template_list(out) ==
    IF out.status = "io_error" THEN Err("io error")
    ELSE IF out.status # "success" THEN Err(CouldNotList)
    ELSE LET output == IF out.stdout = <<>> THEN out.stderr ELSE out.stdout
         IN  IF ~from_utf8_ok(output) THEN Err("invalid utf-8")
             ELSE
             LET raw == Lines(output)
                 lines == [i \in DOMAIN raw |-> Trim(raw[i])]
                 isName(line) == ~StartsWith(line, <<"=">>) /\ line # <<>>
                 isGap(line) == StartsWith(line, <<"=">>) \/ line = <<>>
                 after_header == Drop(lines, 1)
                 standard_templates ==
                     TakeWhile([i \in DOMAIN after_header |-> isName(after_header[i])],
                               after_header)
                 \* take_while also consumes the line that ended it
                 remaining == Drop(after_header, Len(standard_templates) + 1)
                 custom_templates ==
                     SkipWhile([i \in DOMAIN remaining |-> isGap(remaining[i])],
                               remaining)
             IN  IF no_templates(standard_templates) THEN Err(NoTemplates)
                 ELSE Ok([standard_templates |-> standard_templates,
                          custom_templates |-> custom_templates])

UserTemplatePrefix == <<"~", "/", "L", "i", "b", "r", "a", "r", "y", "/">>

\* Path::file_stem: the last component of the path without its extension;
\* None when the path ends in ".." or has no component.
file_stem(path) ==
    LET parts == Split(path, "/")
        named == SelectSeq(parts, LAMBDA c : c # <<>> /\ c # <<".">>)
    IN  IF named = <<>> \/ named[Len(named)] = <<".", ".">> THEN None
        ELSE LET name == named[Len(named)]
                 dots == {i \in DOMAIN name : name[i] = "."}
                 last == CHOOSE i \in dots : \A j \in dots : j <= i
             IN  IF dots = {} \/ dots = {1} THEN Some(name)
                 ELSE Some(SubSeq(name, 1, last - 1))

Panic == [ok |-> FALSE, panic |-> TRUE, err |-> "called Option::unwrap on a None value"]

\* parse_instruments_template_list, given the outcome of `instruments -s templates`
parse_instruments_template_list(out) ==
    IF out.status = "io_error" THEN Err("io error")
    ELSE IF out.status # "success" THEN Err(CouldNotList)
    ELSE IF ~from_utf8_ok(out.stdout) THEN Err("invalid utf-8")
    ELSE
    LET raw == Lines(out.stdout)
        lines == [i \in DOMAIN raw |-> TrimSet(Trim(raw[i]), {"\""})]
        isStandard(line) == ~StartsWith(line, UserTemplatePrefix)
        after_header == Drop(lines, 1)
        standard_templates ==
            TakeWhile([i \in DOMAIN after_header |-> isStandard(after_header[i])],
                      after_header)
        from_first_path ==
            SkipWhile([i \in DOMAIN lines |-> isStandard(lines[i])], lines)
        paths ==
            TakeWhile([i \in DOMAIN from_first_path |-> from_first_path[i] # <<>>],
                      from_first_path)
        stems == [i \in DOMAIN paths |-> file_stem(paths[i])]
    IN  IF no_templates(standard_templates) THEN Err(NoTemplates)
        ELSE IF \E i \in DOMAIN stems : ~stems[i].some THEN Panic
        ELSE Ok([standard_templates |-> standard_templates,
                 custom_templates |-> [i \in DOMAIN stems |-> stems[i].val]])

\* list_command with the legacy command for both variants
list_command_legacy(xctrace_tool) == "instruments -s templates"

\* The command each variant lists its templates with
list_command(xctrace_tool) ==
    IF xctrace_tool = "XcTrace" THEN "xcrun xctrace list templates"
    ELSE "instruments -s templates"

\* XcodeInstruments::available_templates
available_templates(xctrace_tool, out) ==
    IF xctrace_tool = "XcTrace" THEN parse_xctrace_template_list(out)
    ELSE parse_instruments_template_list(out)

\* ------------------------------------------------------------------ opt.rs

\* Target::{Main, Example, Bin, Bench, Test}
Main == [kind |-> "Main"]
Example(name) == [kind |-> "Example", name |-> name]
Bin(name) == [kind |-> "Bin", name |-> name]
Bench(name) == [kind |-> "Bench", name |-> name]
Test(harness, test) == [kind |-> "Test", name |-> harness, test |-> test]

\* get_target with --bin looked at before --example
get_target_bin_first(cfg) ==
    IF cfg.bin.some THEN Bin(cfg.bin.val)
    ELSE IF cfg.example.some THEN Example(cfg.example.val)
    ELSE IF cfg.bench.some THEN Bench(cfg.bench.val)
    ELSE IF cfg.harness.some
         THEN Test(cfg.harness.val, IF cfg.test.some THEN cfg.test.val ELSE "")
    ELSE Main

\* AppConfig::get_target; an absent test name defaults to the empty string
get_target(cfg) ==
    IF cfg.example.some THEN Example(cfg.example.val)
    ELSE IF cfg.bin.some THEN Bin(cfg.bin.val)
    ELSE IF cfg.bench.some THEN Bench(cfg.bench.val)
    ELSE IF cfg.harness.some
         THEN Test(cfg.harness.val, IF cfg.test.some THEN cfg.test.val ELSE "")
    ELSE Main

\* ------------------------------------------------------------------ app.rs

\* Iterator::find: the index of the first unit output named `name`, 0 when
\* there is none
FindNamed(outputs, name) ==
    LET n == LeadingTrue([i \in DOMAIN outputs |-> outputs[i].name # name])
    IN  IF n = Len(outputs) THEN 0 ELSE n + 1

\* select_artifact taking the last matching test-like output, not the first
select_artifact_last(target, result) ==
    IF target.kind \in {"Bench", "Test"}
    THEN LET hits == {i \in DOMAIN result.tests : result.tests[i].name = target.name}
         IN  IF hits = {}
             THEN Err(<<IF target.kind = "Bench" THEN "no benchmark" ELSE "no test",
                        target.name>>)
             ELSE Ok(result.tests[CHOOSE i \in hits : \A j \in hits : j <= i].path)
    ELSE IF Len(result.binaries) = 1 THEN Ok(result.binaries[1].path)
    ELSE IF result.binaries = <<>> THEN Err(<<"no targets found">>)
    ELSE Err(<<"found multiple targets">>
             \o [i \in DOMAIN result.binaries |-> result.binaries[i].name])

\* build_target after cargo::ops::compile returned `result`: the one
\* executable to profile. Unit outputs are [name, path] records.
select_artifact(target, result) ==
    IF target.kind \in {"Bench", "Test"}
    THEN LET i == FindNamed(result.tests, target.name)
         IN  IF i = 0
             THEN Err(<<IF target.kind = "Bench" THEN "no benchmark" ELSE "no test",
                        target.name>>)
             ELSE Ok(result.tests[i].path)
    ELSE IF Len(result.binaries) = 1 THEN Ok(result.binaries[1].path)
    ELSE IF result.binaries = <<>> THEN Err(<<"no targets found">>)
    ELSE Err(<<"found multiple targets">>
             \o [i \in DOMAIN result.binaries |-> result.binaries[i].name])

\* build_target: make_compile_opts cannot fail here; the result of
\* cargo::ops::compile is propagated when it is an error.
build_target(target, compiled) ==
    IF ~compiled.ok THEN compiled ELSE select_artifact(target, compiled.val)

\* main: an error of run() is printed and the process exits with status 1
exit_status(result) ==
    IF result.ok THEN 0 ELSE IF "panic" \in DOMAIN result THEN 101 ELSE 1

\* resolve_template_name with the abbreviation of File Activity mistaken
resolve_template_name_swapped(template_name) ==
    CASE template_name = "time" -> "Time Profiler"
      [] template_name = "alloc" -> "Allocations"
      [] template_name = "io" -> "System Trace"
      [] template_name = "sys" -> "System Trace"
      [] OTHER -> template_name

\* resolve_template_name
resolve_template_name(template_name) ==
    CASE template_name = "time" -> "Time Profiler"
      [] template_name = "alloc" -> "Allocations"
      [] template_name = "io" -> "File Activity"
      [] template_name = "sys" -> "System Trace"
      [] OTHER -> template_name

\* abbrev_name
abbrev_name(template_name) ==
    CASE template_name = "Time Profiler" -> Some("time")
      [] template_name = "Allocations" -> Some("alloc")
      [] template_name = "File Activity" -> Some("io")
      [] template_name = "System Trace" -> Some("sys")
      [] OTHER -> None

\* The characters of a string, and the string of a sequence of characters
Chars(str) == [i \in 1..Len(str) |-> SubSeq(str, i, i)]
RECURSIVE Str(_)
Str(chars) == IF chars = <<>> THEN "" ELSE chars[1] \o Str(Tail(chars))

\* str::replace of one character by another
Replace(str, from, to) ==
    LET cs == Chars(str)
    IN  Str([i \in DOMAIN cs |-> IF cs[i] = from THEN to ELSE cs[i]])

\* str::split_whitespace: the non-empty pieces between white space
RECURSIVE SplitWhitespace(_)
SplitWhitespace(chars) ==
    LET rest == Drop(chars, PrefixLen(chars, Whitespace))
        n == PrefixLen(rest, Range(rest) \ Whitespace)
    IN  IF rest = <<>> THEN <<>>
        ELSE <<SubSeq(rest, 1, n)>> \o SplitWhitespace(Drop(rest, n))

\* A number in decimal, with zeros before it up to `width` digits
\* (chrono's %Y, %m, %d, %H, %M, %S and %3f)
Padded(n, width) ==
    LET digits == ToString(n)
        zeros == [i \in 1..(width - Len(digits)) |-> "0"]
    IN  Str(zeros) \o digits

\* get_tty: `ps otty= <pid>` printed ps.stdout; the first word of it names
\* the terminal, and there is none when nothing but white space was printed.
get_tty(ps) ==
    IF ps.status = "io_error" THEN Err("io error")
    ELSE IF ~from_utf8_ok(Chars(ps.stdout)) THEN Err("invalid utf-8")
    ELSE LET words == SplitWhitespace(Chars(ps.stdout))
         IN  Ok(IF words = <<>> THEN None ELSE Some("/dev/" \o Str(words[1])))

\* the time limit of xctrace given as a bare number
xctrace_time_limit_bare(limit_millis) == <<"--time-limit", ToString(limit_millis)>>

\* profiling_command, lines 93-96: format!("{}ms", limit_millis)
xctrace_time_limit(limit_millis) == <<"--time-limit", ToString(limit_millis) \o "ms">>

\* the time limit of instruments as the doc comment of profiling_command has it
instruments_time_limit_ms(limit) == <<"-l", ToString(limit) \o "ms">>

\* profiling_command, lines 113-115: limit.to_string()
instruments_time_limit(limit) == <<"-l", ToString(limit)>>

\* XcodeInstruments::profiling_command: the program and its arguments. Only
\* xctrace asks for the terminal (ps is what `ps otty=` gave).
profiling_command(tool, template_name, trace_filepath, time_limit, ps) ==
    IF tool = "XcTrace"
    THEN LET tty == get_tty(ps)
         IN  IF ~tty.ok THEN tty
             ELSE Ok(<<"xcrun", "xctrace", "record", "--template", template_name>>
                     \o (IF time_limit.some THEN xctrace_time_limit(time_limit.val)
                         ELSE <<>>)
                     \o <<"--output", trace_filepath>>
                     \o (IF tty.val.some
                         THEN <<"--target-stdin", tty.val.val,
                                "--target-stdout", tty.val.val>>
                         ELSE <<>>)
                     \o <<"--launch", "--">>)
    ELSE Ok(<<"instruments", "-t", template_name, "-D", trace_filepath>>
            \o (IF time_limit.some THEN instruments_time_limit(time_limit.val)
                ELSE <<>>))

\* profile_target, lines 457-461: the target and its arguments end the command
with_target(command, target_filepath, target_args) ==
    command \o <<target_filepath>> \o target_args

\* The local time: a date and the milliseconds since the start of the day
Time(year, month, day, millis) ==
    [year |-> year, month |-> month, day |-> day, millis |-> millis]

\* the timestamp with the resolution of a second
timestamp_seconds(now) ==
    LET s == now.millis \div 1000
    IN  Padded(now.year, 4) \o "-" \o Padded(now.month, 2) \o "-" \o Padded(now.day, 2)
        \o "_" \o Padded(s \div 3600, 2) \o Padded((s \div 60) % 60, 2)
        \o Padded(s % 60, 2) \o "-000"

\* now.format("%F_%H%M%S-%3f")
timestamp(now) ==
    LET s == now.millis \div 1000
    IN  Padded(now.year, 4) \o "-" \o Padded(now.month, 2) \o "-" \o Padded(now.day, 2)
        \o "_" \o Padded(s \div 3600, 2) \o Padded((s \div 60) % 60, 2)
        \o Padded(s % 60, 2) \o "-" \o Padded(now.millis % 1000, 3)

\* Path::join of a relative name
PathJoin(dir, name) ==
    IF dir = "" \/ SubSeq(dir, Len(dir), Len(dir)) = "/" THEN dir \o name
    ELSE dir \o "/" \o name

\* workspace_root.join("target").join("instruments")
trace_dir_of(workspace_root) == PathJoin(PathJoin(workspace_root, "target"), "instruments")

\* prepare_trace_filepath, lines 383-392: the name of the trace file
trace_filename(target_filepath, template_name, now) ==
    LET target_shortname == file_stem(Chars(target_filepath))
    IN  IF ~target_shortname.some THEN Err("invalid target path")
        ELSE Ok(Str(target_shortname.val) \o "_" \o Replace(template_name, " ", "-")
                \o "_" \o timestamp(now) \o ".trace")

\* One external effect: a command that was run (with how it ended) or a
\* message that was printed.
Ran(cmd, status) == [cmd |-> cmd, status |-> status]
Printed(what) == [cmd |-> "print", status |-> what]

\* trace_dir_effects probing the directory whatever the configuration is
trace_dir_effects_always(cfg, dir_exists, dir_created) ==
    <<Ran("exists", IF dir_exists THEN "true" ELSE "false")>>
    \o (IF dir_exists THEN <<>>
        ELSE <<Ran("create_dir_all", IF dir_created THEN "success" ELSE "io_error")>>)

\* prepare_trace_filepath, lines 372-381: what it does to the file system.
\* Nothing with an explicit path; else it asks whether target/instruments
\* exists and creates it when it does not.
trace_dir_effects(cfg, dir_exists, dir_created) ==
    IF cfg.trace_filepath.some THEN <<>>
    ELSE <<Ran("exists", IF dir_exists THEN "true" ELSE "false")>>
         \o (IF dir_exists THEN <<>>
             ELSE <<Ran("create_dir_all", IF dir_created THEN "success" ELSE "io_error")>>)

\* prepare_trace_filepath: the explicit path, or a file named after the
\* target, the template and the time in <root>/target/instruments, which is
\* created when missing (dir_created tells whether that worked).
prepare_trace_filepath(target_filepath, template_name, cfg, workspace_root, dir_exists, dir_created, now) ==
    LET effects == trace_dir_effects(cfg, dir_exists, dir_created)
        failed == Ran("create_dir_all", "io_error") \in Range(effects)
        named == trace_filename(target_filepath, template_name, now)
    IN  [effects |-> effects,
         returned |->
            IF cfg.trace_filepath.some THEN Ok(cfg.trace_filepath.val)
            ELSE IF failed THEN Err("failed to create target/instruments")
            ELSE IF ~named.ok THEN named
            ELSE Ok(PathJoin(trace_dir_of(workspace_root), named.val))]

\* ------------------------------------------------------------- the run

VARIABLES
    pc,              \* where run() is: the step it takes next
    app_config,      \* the parsed command line (AppConfig)
    xctrace_tool,    \* the detected XcodeInstruments variant
    catalog,         \* the template catalog that was listed
    workspace,       \* the project's declared targets, once loaded
    cargo_options,   \* CargoOpts.target, once resolved
    target_filepath, \* the built executable
    trace_filepath,  \* the trace file profile_target returned
    trace_dir,       \* whether <root>/target/instruments exists
    result,          \* what run() returned
    exit_code,       \* the exit status of the process
    events,          \* the external effects so far, in order
    command,         \* the profiling command that was run
    call,            \* a function applied on its own: its name and argument
    ret,             \* and what it returned
    dirs,            \* two invocations at once: the directories that exist
    invocations      \* and where each invocation is in prepare_trace_filepath

run_vars == <<pc, app_config, xctrace_tool, catalog, workspace, cargo_options,
              target_filepath, trace_filepath, trace_dir, result, exit_code, events,
              command>>
fn_vars == <<call, ret>>
race_vars == <<dirs, invocations>>
vars == <<run_vars, fn_vars, race_vars>>

Names == {"a", "b"}
OptName == {None} \cup {Some(n) : n \in Names}

\* The configurations the argument parser lets through: the selectors
\* example, bin, bench and harness exclude each other (group = "target"),
\* and a template is required unless templates are listed.
AppConfigs ==
    {c \in [list_templates : BOOLEAN,
            template_name : {None, Some("time"), Some("Leaks")},
            example : OptName, bin : OptName, bench : OptName, harness : OptName,
            test : {None, Some("t")},
            trace_filepath : {None, Some("out.trace")},
            time_limit : {None, Some(5000)},
            open : BOOLEAN,
            no_open : BOOLEAN,
            target_args : {<<>>, <<"x", "-y">>}] :
        /\ Cardinality({f \in {"example", "bin", "bench", "harness"} : c[f].some}) <= 1
        /\ c.list_templates \/ c.template_name.some}

\* Version texts `sw_vers` may print, and a text that is no version
SwVersSamples ==
    { <<"1", "0", ".", "1", "4", ".", "6", "\n">>,
      <<"1", "0", ".", "1", "5", "\n">>,
      <<"1", "1", ".", "2", "\n">>,
      <<"x", "\n">> }

CommandStatus == {"io_error", "nonzero", "success"}

SwVersOutcomes ==
    {[status |-> st, stdout |-> <<>>] : st \in {"io_error", "nonzero"}}
    \cup {[status |-> "success", stdout |-> t] : t \in SwVersSamples}

FsProbes == [clt_git : BOOLEAN, instruments_app : BOOLEAN]

Unit == "()"

Running == [state |-> "running"]
Returned(r) == [state |-> "returned", val |-> r]

RunInit ==
    /\ pc = "detect"
    /\ app_config \in AppConfigs
    /\ xctrace_tool = None
    /\ catalog = None
    /\ workspace = None
    /\ cargo_options = None
    /\ target_filepath = None
    /\ trace_filepath = None
    /\ trace_dir \in BOOLEAN
    /\ result = Running
    /\ exit_code = None
    /\ events = <<>>
    /\ command = None

\* No function is applied on its own
NoCall ==
    /\ call = None
    /\ ret = None

\* No two invocations are under way
NoRace ==
    /\ dirs = {}
    /\ invocations = <<>>

Init ==
    /\ RunInit
    /\ NoCall
    /\ NoRace

\* run() returns r: nothing else happens but the exit of the process
Return(r) ==
    /\ pc' = "exit"
    /\ result' = Returned(r)

\* run, step 1: XcodeInstruments::detect()?
Detect ==
    /\ pc = "detect"
    /\ \E sw \in SwVersOutcomes, fs \in FsProbes :
         \E tool \in {detect(sw, fs)} :
             /\ events' = events \o <<Ran("sw_vers", sw.status)>>
             /\ IF tool.ok
                 THEN /\ xctrace_tool' = Some(tool.val)
                      /\ pc' = IF app_config.list_templates THEN "list" ELSE "workspace"
                      /\ UNCHANGED result
                 ELSE /\ Return(tool)
                      /\ UNCHANGED xctrace_tool
    /\ UNCHANGED <<app_config, catalog, workspace, cargo_options, target_filepath,
                   trace_filepath, trace_dir, exit_code, command, fn_vars, race_vars>>

\* Listings the two tools print (shortened names), an empty one, and the
\* legacy listing of an installation with a user template.
XctraceListing ==
    <<"=", "=", " ", "S", " ", "=", "=", "\n", "L", "e", "a", "k", "s", "\n", "\n",
      "=", "=", " ", "C", " ", "=", "=", "\n", "M", "y", "\n">>
InstrumentsListing ==
    <<"K", "n", "o", "w", "n", ":", "\n", "\"", "L", "e", "a", "k", "s", "\"", "\n",
      "\"", "~", "/", "L", "i", "b", "r", "a", "r", "y", "/", "M", "y", ".", "t", "\"", "\n">>

ListingOutcomes ==
    {[status |-> st, stdout |-> <<>>, stderr |-> <<>>] : st \in CommandStatus}
    \cup {[status |-> "success", stdout |-> t, stderr |-> <<>>] :
            t \in {XctraceListing, InstrumentsListing}}

\* run, step 2: list the templates, print them and return
ListTemplates ==
    /\ pc = "list"
    /\ \E out \in ListingOutcomes :
         \E listed \in {available_templates(xctrace_tool.val, out)} :
             /\ catalog' = Some(listed)
             /\ events' = events \o <<Ran(list_command(xctrace_tool.val), out.status)>>
                           \o (IF listed.ok THEN <<Printed("catalog")>> ELSE <<>>)
             /\ Return(IF listed.ok THEN Ok(Unit) ELSE listed)
    /\ UNCHANGED <<app_config, xctrace_tool, workspace, cargo_options, target_filepath,
                   trace_filepath, trace_dir, exit_code, command, fn_vars, race_vars>>

\* The targets a project declares, by kind and name
Declared(kind, name) == [kind |-> kind, name |-> name]
ProjectSamples ==
    { {},
      {Declared(k, "a") : k \in {"Bin", "Example", "Bench", "Test"}},
      {Declared(k, n) : k \in {"Bin", "Example", "Bench", "Test"}, n \in Names} }

\* run, step 3 up to to_cargo_opts: the cargo configuration, the manifest and
\* the workspace are loaded (any of them may fail), the warning about --open
\* is printed, and the target is resolved.
LoadWorkspace ==
    /\ pc = "workspace"
    /\ \/ /\ Return(Err("cargo: workspace"))
          /\ UNCHANGED <<workspace, cargo_options, events>>
       \/ \E project \in ProjectSamples, opts_ok \in BOOLEAN :
            /\ workspace' = Some(project)
            /\ events' = events \o (IF app_config.open
                                     THEN <<Printed("Warning")>> ELSE <<>>)
            /\ IF opts_ok
               THEN /\ cargo_options' = Some([target |-> get_target(app_config)])
                    /\ pc' = "build"
                    /\ UNCHANGED result
               ELSE /\ Return(Err("cargo: features"))
                    /\ UNCHANGED cargo_options
    /\ UNCHANGED <<app_config, xctrace_tool, catalog, target_filepath,
                   trace_filepath, trace_dir, exit_code, command, fn_vars, race_vars>>

\* Unit outputs of a compilation
UnitOutput(name, path) == [name |-> name, path |-> path]
Compilation(binaries, tests) == [binaries |-> binaries, tests |-> tests]

\* What cargo::ops::compile may return: an error, or binaries and test-like
\* outputs
CompileSamples ==
    { Err("cargo: could not compile"),
      Ok(Compilation(<<>>, <<>>)),
      Ok(Compilation(<<UnitOutput("a", "/t/a")>>, <<UnitOutput("a", "/t/a-1")>>)),
      Ok(Compilation(<<UnitOutput("a", "/t/a"), UnitOutput("b", "/t/b")>>,
                     <<UnitOutput("b", "/t/b-1"), UnitOutput("a", "/t/a-1")>>)) }

\* on_build_error with the error printed but not returned
on_build_error_swallowed(e) == Ok(Unit)

\* make_compile_opts and cargo::ops::compile: the filter names the binary,
\* example or bench to build, and cargo refuses a name the workspace does not
\* declare; for a test harness the filter names nothing and every test is
\* built. Anything else is left to cargo.
CompileOutcomes(target, project) ==
    IF /\ target.kind \in {"Bin", "Example", "Bench"}
       /\ Declared(target.kind, target.name) \notin project
    THEN {Err("cargo: no such target")}
    ELSE CompileSamples

\* run, lines 51-57: the error of build_target is printed and returned
on_build_error(e) == e

\* forwarded_args with the test name put after the arguments
forwarded_args_appended(target, target_args) ==
    IF target.kind = "Test" THEN target_args \o <<target.test>> ELSE target_args

\* run, lines 62-64: the test name goes before the arguments of the target
forwarded_args(target, target_args) ==
    IF target.kind = "Test" THEN <<target.test>> \o target_args ELSE target_args

\* run, steps 3 (build_target) to 3.x: compile, select the executable, sign
\* it on aarch64, and put a test's name before the target's arguments.
\* codesign is "skipped" (not aarch64), "done" (signed, or its failure
\* printed) or "io_error" (the entitlements or the command failed to run).
Build ==
    /\ pc = "build"
    /\ \E compiled \in CompileOutcomes(cargo_options.val.target, workspace.val),
          codesign \in {"skipped", "done", "io_error"} :
         LET target == cargo_options.val.target
             built == build_target(target, compiled)
             compile_ran == <<Ran("compile", IF compiled.ok THEN "success" ELSE "error")>>
         IN  /\ target_filepath' = Some(built)
             /\ IF ~built.ok
                THEN /\ events' = events \o compile_ran \o <<Printed("Failed")>>
                     /\ Return(on_build_error(built))
                     /\ UNCHANGED app_config
                ELSE IF codesign = "io_error"
                THEN /\ events' = events \o compile_ran \o <<Ran("codesign", "io_error")>>
                     /\ Return(Err("io error"))
                     /\ UNCHANGED app_config
                ELSE /\ events' = events \o compile_ran
                           \o (IF codesign = "done"
                               THEN <<Ran("codesign", "success")>> ELSE <<>>)
                     /\ app_config' =
                           [app_config EXCEPT
                              !.target_args = forwarded_args(target, @)]
                     /\ pc' = "profile"
                     /\ UNCHANGED result
    /\ UNCHANGED <<xctrace_tool, catalog, workspace, cargo_options,
                   trace_filepath, trace_dir, exit_code, command, fn_vars, race_vars>>

\* What `ps otty= <pid>` may print: nothing (no controlling terminal), or
\* the name of the terminal; or it cannot be run
TtyOutcomes ==
    { [status |-> "io_error", stdout |-> ""],
      [status |-> "success", stdout |-> ""],
      [status |-> "success", stdout |-> "ttys001\n"] }

\* The root of the workspace, and the times of the clock that are explored
WorkspaceRoot == "/p"
Clock == {Time(2024, 1, 1, 43200001)}

\* run, lines 70-74: the error of profile_target is printed, and run returns
on_profile_error(e) == Ok(Unit)

\* profile_target, lines 463-473: the command is run and waited for;
\* `planned` is what prepare_trace_filepath gave and `prepared` the command
profile_target_output(tool, cfg, target_path, tty, profiler, planned, prepared) ==
    [effects |->
        planned.effects
        \o (IF ~planned.returned.ok THEN <<>>
            ELSE <<Printed("Profiling")>>
                 \o (IF tool = "XcTrace" THEN <<Ran("ps", tty.status)>> ELSE <<>>)
                 \o (IF ~prepared.ok THEN <<>> ELSE <<Ran("profiler", profiler)>>)),
     command |->
        IF prepared.ok
        THEN Some(with_target(prepared.val, target_path, cfg.target_args))
        ELSE None,
     returned |->
        IF ~prepared.ok THEN prepared
        ELSE IF profiler = "io_error" THEN Err("io error")
        ELSE IF profiler # "success" THEN Err("instruments errored")
        ELSE planned.returned]

\* profile_target, lines 444-455: the activity is printed and the command of
\* the detected tool is built (xctrace asks for the terminal first), unless
\* the trace file could not be planned
profile_target_command(tool, cfg, target_path, tty, profiler, template_name, planned) ==
    profile_target_output(tool, cfg, target_path, tty, profiler, planned,
        IF planned.returned.ok
        THEN profiling_command(tool, template_name, planned.returned.val,
                               cfg.time_limit, tty)
        ELSE planned.returned)

\* profile_target, lines 433-442: the template is resolved and the trace file
\* planned
profile_target_planned(tool, cfg, target_path, dir_exists, dir_created, tty, profiler, now, template_name) ==
    profile_target_command(tool, cfg, target_path, tty, profiler, template_name,
        prepare_trace_filepath(target_path, template_name, cfg, WorkspaceRoot,
                               dir_exists, dir_created, now))

\* profile_target: plan the trace file, build the command, run it and wait
\* for it. Gives what it did (effects), the command it ran and what it
\* returned.
profile_target(tool, cfg, target_path, dir_exists, dir_created, tty, profiler, now) ==
    profile_target_planned(tool, cfg, target_path, dir_exists, dir_created, tty,
                           profiler, now, resolve_template_name(cfg.template_name.val))

\* run, step 4
ProfileTarget ==
    /\ pc = "profile"
    /\ \E dir_created \in BOOLEAN, tty \in TtyOutcomes, profiler \in CommandStatus,
          now \in Clock :
         \E p \in {profile_target(xctrace_tool.val, app_config, target_filepath.val.val,
                                   trace_dir, dir_created, tty, profiler, now)} :
             /\ trace_filepath' = Some(p.returned)
             /\ command' = p.command
             /\ trace_dir' = (trace_dir \/ Ran("create_dir_all", "success") \in Range(p.effects))
             /\ IF p.returned.ok
                THEN /\ events' = events \o p.effects
                     /\ pc' = "report"
                     /\ UNCHANGED result
                ELSE /\ events' = events \o p.effects \o <<Printed("Failed")>>
                     /\ Return(on_profile_error(p.returned))
    /\ UNCHANGED <<app_config, xctrace_tool, catalog, workspace, cargo_options,
                   target_filepath, exit_code, fn_vars, race_vars>>

\* opens_trace with --no-open ignored
opens_trace_always(cfg) == TRUE

\* run, line 87: the trace is opened unless --no-open was given
opens_trace(cfg) == ~cfg.no_open

\* launch_instruments: `open <trace>`
launch_instruments(status) ==
    IF status = "io_error" THEN Err("io error")
    ELSE IF status # "success" THEN Err("open failed")
    ELSE Ok(Unit)

\* run, steps 5 and 6: print the trace file's path and open it
Report ==
    /\ pc = "report"
    /\ IF opens_trace(app_config)
       THEN \E status \in CommandStatus :
              /\ events' = events \o <<Printed("Trace file"), Ran("open", status)>>
              /\ Return(launch_instruments(status))
       ELSE /\ events' = events \o <<Printed("Trace file")>>
            /\ Return(Ok(Unit))
    /\ UNCHANGED <<app_config, xctrace_tool, catalog, workspace, cargo_options,
                   target_filepath, trace_filepath, trace_dir, exit_code, command, fn_vars, race_vars>>

\* main: the process exits
Exit ==
    /\ pc = "exit"
    /\ exit_code' = Some(exit_status(result.val))
    /\ pc' = "done"
    /\ UNCHANGED <<app_config, xctrace_tool, catalog, workspace, cargo_options,
                   target_filepath, trace_filepath, trace_dir, result, events,
                   command, fn_vars, race_vars>>

Next ==
    \/ Detect
    \/ ListTemplates
    \/ LoadWorkspace
    \/ Build
    \/ ProfileTarget
    \/ Report
    \/ Exit

Spec == Init /\ [][Next]_vars

\* ------------------------------------------- the functions on their own

\* all sequences over S of at most n elements
SeqsUpTo(S, n) == UNION {[1..k -> S] : k \in 0..n}

\* The pieces of the version texts that are explored: empty, numbers, a
\* number with a leading zero, a word, a number with a pre-release tag or
\* with build metadata, a number followed by the line feed `sw_vers` prints,
\* an invalid byte.
VersionComponents ==
    { <<>>, <<"0">>, <<"2">>, <<"1", "1">>, <<"0", "2">>, <<"x">>,
      <<"3", "-", "r", "c">>, <<"3", "+", "b">>, <<"4", "\n">>, <<InvalidByte>> }

\* Versions around the threshold, for detect
DetectVersionTexts ==
    SwVersSamples \cup
    { <<"9", ".", "9", "9", "\n">>,
      <<"1", "0", "\n">>,
      <<"1", "0", ".", "1", "4", "\n">>,
      <<"1", "0", ".", "1", "5", ".", "0", "\n">>,
      <<"1", "0", ".", "1", "5", ".", "0", "-", "r", "c">>,
      <<"1", "0", ".", "1", "5", ".", "1", "\n">>,
      <<"1", "0", ".", "1", "6", "\n">>,
      <<"1", "1", "\n">> }

\* detect is applied to a version and the two probes
DetectCall ==
    \E sw \in {[status |-> st, stdout |-> <<>>] : st \in {"io_error", "nonzero"}}
               \cup {[status |-> "success", stdout |-> t] : t \in DetectVersionTexts},
       fs \in FsProbes :
        call = [fn |-> "detect", sw |-> sw, fs |-> fs]

\* the lines, each ended by a line feed
RECURSIVE Unlines(_)
Unlines(ls) == IF ls = <<>> THEN <<>> ELSE ls[1] \o <<"\n">> \o Unlines(Tail(ls))

\* Lines of an xctrace listing: a section marker, a blank line, a name, a
\* name with spaces around it
XctraceLines ==
    { <<"=", "=", "S", "=", "=">>, <<>>, <<"L", "e", "a", "k", "s">>, <<" ", "M", "y", " ">> }

\* Lines of an instruments listing: the header, a quoted name, a quoted user
\* template file, a blank line, a user template path that names no file
LegacyLines ==
    { <<"K", "n", "o", "w", "n", ":">>,
      <<"\"", "L", "e", "a", "k", "s", "\"">>,
      <<"\"">> \o UserTemplatePrefix \o <<"T", "/", "M", "y", ".", "t", "\"">>,
      <<>>,
      UserTemplatePrefix \o <<".", ".">> }

\* parse_xctrace_template_list is applied to a listing printed on stdout, on
\* stderr, or on stdout with another text on stderr, by a command that
\* succeeded or not
XctraceCall ==
    \E ls \in SeqsUpTo(XctraceLines, MaxLines), st \in CommandStatus,
       stream \in {"stdout", "stderr", "both"} :
        call = [fn |-> "parse_xctrace_template_list",
                out |-> [status |-> st,
                         stdout |-> IF stream = "stderr" THEN <<>> ELSE Unlines(ls),
                         stderr |-> CASE stream = "stdout" -> <<>>
                                      [] stream = "stderr" -> Unlines(ls)
                                      [] stream = "both" -> XctraceListing]]

\* parse_instruments_template_list is applied to a listing
LegacyCall ==
    \E ls \in SeqsUpTo(LegacyLines, MaxLines), st \in CommandStatus :
        call = [fn |-> "parse_instruments_template_list",
                out |-> [status |-> st, stdout |-> Unlines(ls), stderr |-> <<>>]]

\* get_target is applied to every combination of present and absent selectors
TargetCall ==
    \E c \in [example : OptName, bin : OptName, bench : OptName,
               harness : OptName, test : OptName] :
        call = [fn |-> "get_target", cfg |-> c]

Targets ==
    {Main} \cup {Example(n) : n \in Names} \cup {Bin(n) : n \in Names}
    \cup {Bench(n) : n \in Names} \cup {Test(n, t) : n \in Names, t \in {"", "t"}}

UnitOutputs ==
    {UnitOutput("a", "/t/a-1"), UnitOutput("a", "/t/a-2"), UnitOutput("b", "/t/b-3")}

\* build_target is applied to a target and to what the compilation returned
BuildCall ==
    \E t \in Targets :
        \/ call = [fn |-> "build_target", target |-> t,
                   compiled |-> Err("cargo: could not compile")]
        \/ \E bs \in SeqsUpTo(UnitOutputs, MaxOutputs),
              ts \in SeqsUpTo(UnitOutputs, MaxOutputs) :
               call = [fn |-> "build_target", target |-> t,
                       compiled |-> Ok(Compilation(bs, ts))]

\* semver_from_utf8 is applied to a text of one to MaxComponents pieces
SemverCall ==
    \E cs \in SeqsUpTo(VersionComponents, MaxComponents) :
        /\ cs # <<>>
        /\ call = [fn |-> "semver_from_utf8", version |-> Join(cs, ".")]

\* What `ps otty= <pid>` printed, for get_tty: nothing, a blank line, the
\* terminal, the terminal among spaces and before another word; or ps
\* could not be run
PsSamples ==
    { [status |-> "io_error", stdout |-> ""],
      [status |-> "success", stdout |-> ""],
      [status |-> "success", stdout |-> " \n"],
      [status |-> "success", stdout |-> "ttys001\n"],
      [status |-> "nonzero", stdout |-> "  ttys002  x\n"] }

TemplateNames ==
    {"time", "alloc", "io", "sys", "Time Profiler", "Allocations", "File Activity",
     "System Trace", "Leaks", "Time", "time ", "TIME", ""}

\* The profiling command is built for a tool, a template, a trace file, a
\* time limit, a terminal, a target and its arguments
CommandCall ==
    \E tool \in {"XcTrace", "InstrumentsBinary"},
       template_name \in {"Time Profiler", "Leaks"},
       trace \in {"out.trace", "/p/target/instruments/a_Leaks_t.trace"},
       time_limit \in {None, Some(0), Some(5000)},
       ps \in PsSamples,
       args \in SeqsUpTo({"x", "-y"}, MaxArgs) :
        call = [fn |-> "profiling_command", tool |-> tool,
                template_name |-> template_name, trace_filepath |-> trace,
                time_limit |-> time_limit, ps |-> ps,
                target_filepath |-> "/p/target/debug/tries", target_args |-> args]

\* Executables cargo builds, with the stem of their file name
ArtifactSamples ==
    { [path |-> "/p/target/debug/tries", stem |-> "tries"],
      [path |-> "/p/target/release/deps/b-0f1e", stem |-> "b-0f1e"],
      [path |-> "/p/target/debug/examples/my.app", stem |-> "my"] }

\* Template names, with the name whose spaces are dashes
TemplateSamples ==
    { [name |-> "Time Profiler", dashed |-> "Time-Profiler"],
      [name |-> "Leaks", dashed |-> "Leaks"],
      [name |-> " a  b", dashed |-> "-a--b"] }

\* Local times, with the text "%F_%H%M%S-%3f" gives for them and for the
\* millisecond after them
ClockSamples ==
    { [time |-> Time(2024, 1, 1, 43200001),
       text |-> "2024-01-01_120000-001", next |-> "2024-01-01_120000-002"],
      [time |-> Time(2024, 1, 1, 43200999),
       text |-> "2024-01-01_120000-999", next |-> "2024-01-01_120001-000"],
      [time |-> Time(2024, 12, 31, 86399998),
       text |-> "2024-12-31_235959-998", next |-> "2024-12-31_235959-999"],
      [time |-> Time(987, 6, 5, 3599999),
       text |-> "0987-06-05_005959-999", next |-> "0987-06-05_010000-000"] }

\* prepare_trace_filepath is applied twice, the second time a millisecond
\* after the first
TracePathCall ==
    \E artifact \in ArtifactSamples, template \in TemplateSamples,
       explicit \in {None, Some("out.trace"), Some("/tmp/my trace")},
       root \in {"/p", "/home/me/proj"},
       dir_exists \in BOOLEAN, dir_created \in BOOLEAN,
       now \in ClockSamples :
        call = [fn |-> "prepare_trace_filepath", artifact |-> artifact,
                template |-> template, cfg |-> [trace_filepath |-> explicit],
                workspace_root |-> root, dir_exists |-> dir_exists,
                dir_created |-> dir_created, now |-> now]

\* resolve_template_name is applied to an alias, a full name, another name
ResolveCall ==
    \E name \in TemplateNames : call = [fn |-> "resolve_template_name", name |-> name]

\* No run is under way
NoRun ==
    /\ pc = "none"
    /\ app_config = None
    /\ xctrace_tool = None
    /\ catalog = None
    /\ workspace = None
    /\ cargo_options = None
    /\ target_filepath = None
    /\ trace_filepath = None
    /\ trace_dir = FALSE
    /\ result = Running
    /\ exit_code = None
    /\ events = <<>>
    /\ command = None

InitFn ==
    /\ NoRun
    /\ \/ SemverCall
       \/ DetectCall
       \/ XctraceCall
       \/ LegacyCall
       \/ TargetCall
       \/ BuildCall
       \/ CommandCall
       \/ TracePathCall
       \/ ResolveCall
    /\ ret = None
    /\ NoRace

Returns(fn, value) ==
    /\ call.fn = fn
    /\ ret = None
    /\ ret' = Some(value)
    /\ UNCHANGED <<run_vars, call, race_vars>>

CallSemverFromUtf8 ==
    call.fn = "semver_from_utf8"
    /\ Returns("semver_from_utf8", semver_from_utf8(call.version))

CallDetect ==
    call.fn = "detect" /\ Returns("detect", detect(call.sw, call.fs))

CallParseXctrace ==
    call.fn = "parse_xctrace_template_list"
    /\ Returns("parse_xctrace_template_list", parse_xctrace_template_list(call.out))

CallParseInstruments ==
    call.fn = "parse_instruments_template_list"
    /\ Returns("parse_instruments_template_list",
               parse_instruments_template_list(call.out))

CallGetTarget ==
    call.fn = "get_target" /\ Returns("get_target", get_target(call.cfg))

CallBuildTarget ==
    call.fn = "build_target"
    /\ Returns("build_target", build_target(call.target, call.compiled))

\* profiling_command, and the target and its arguments after it
CallProfilingCommand ==
    call.fn = "profiling_command"
    /\ LET prepared == profiling_command(call.tool, call.template_name,
                                         call.trace_filepath, call.time_limit, call.ps)
       IN  Returns("profiling_command",
                   IF ~prepared.ok THEN prepared
                   ELSE Ok(with_target(prepared.val, call.target_filepath,
                                       call.target_args)))

\* the millisecond after `now`, on the same day
NextMillisecond(now) == [now EXCEPT !.millis = @ + 1]

\* prepare_trace_filepath, and again a millisecond later with the directory
\* as the first call left it
CallPrepareTraceFilepath ==
    call.fn = "prepare_trace_filepath"
    /\ LET first == prepare_trace_filepath(call.artifact.path, call.template.name,
                                           call.cfg, call.workspace_root,
                                           call.dir_exists, call.dir_created,
                                           call.now.time)
           exists_now == \/ call.dir_exists
                         \/ Ran("create_dir_all", "success") \in Range(first.effects)
           second == prepare_trace_filepath(call.artifact.path, call.template.name,
                                            call.cfg, call.workspace_root,
                                            exists_now, call.dir_created,
                                            NextMillisecond(call.now.time))
       IN  Returns("prepare_trace_filepath", [first |-> first, second |-> second])

CallResolveTemplateName ==
    call.fn = "resolve_template_name"
    /\ Returns("resolve_template_name", resolve_template_name(call.name))

NextFn ==
    \/ CallProfilingCommand
    \/ CallPrepareTraceFilepath
    \/ CallResolveTemplateName
    \/ CallSemverFromUtf8
    \/ CallDetect
    \/ CallParseXctrace
    \/ CallParseInstruments
    \/ CallGetTarget
    \/ CallBuildTarget

SpecFn == InitFn /\ [][NextFn]_vars

\* ------------------------------- two invocations against the same project

\* Two runs of cargo instruments in the same workspace, each in
\* prepare_trace_filepath without an explicit path. File names are relative
\* to the workspace root, which exists.
Invocations == {1, 2}
TargetDir == "target"
TraceDir == "target/instruments"

\* mkdir(2) of TargetDir or TraceDir, given the directories that exist
mkdir(path, existing) ==
    IF path \in existing THEN "AlreadyExists"
    ELSE IF path = TraceDir /\ TargetDir \notin existing THEN "NotFound"
    ELSE "Ok"

\* create_dir_all failing whenever mkdir fails
mkdir_failed_strict(is_dir) == Err("failed to create target/instruments")

\* fs::create_dir_all, when mkdir failed for another reason than a missing
\* parent: a directory that is there by now is a success
mkdir_failed(is_dir) ==
    IF is_dir THEN Ok(Unit) ELSE Err("failed to create target/instruments")

\* An invocation about to ask whether target/instruments exists
Planning(template_name, now) ==
    [pc |-> "exists", template_name |-> template_name, now |-> now,
     found |-> FALSE, raced |-> FALSE, returned |-> None]

InitRace ==
    /\ NoRun
    /\ NoCall
    /\ dirs \in {{}, {TargetDir}, {TargetDir, TraceDir}}
    /\ invocations \in
         [Invocations ->
            {Planning(t, n) : t \in {"Leaks", "Time Profiler"},
                              n \in {Time(2024, 1, 1, 43200001),
                                     Time(2024, 1, 1, 43200002)}}]

\* invocation i goes on at `to`, with the fields of `changes` set
Goes(i, to, changes) ==
    invocations' =
        [invocations EXCEPT ![i] =
            [f \in DOMAIN @ |->
                IF f = "pc" THEN to
                ELSE IF f \in DOMAIN changes THEN changes[f] ELSE @[f]]]

\* line 378: trace_dir.exists()
CheckExists ==
    \E i \in Invocations :
        /\ invocations[i].pc = "exists"
        /\ IF TraceDir \in dirs
           THEN Goes(i, "name", [found |-> TRUE])
           ELSE Goes(i, "mkdir", [found |-> FALSE])
        /\ UNCHANGED <<run_vars, fn_vars, dirs>>

\* line 379, fs::create_dir_all: mkdir of target/instruments, the first time
\* and again once its parent is there
Mkdir ==
    \E i \in Invocations :
        /\ invocations[i].pc \in {"mkdir", "mkdir again"}
        /\ LET made == mkdir(TraceDir, dirs)
           IN  CASE made = "Ok" ->
                      /\ dirs' = dirs \cup {TraceDir}
                      /\ Goes(i, "name", <<>>)
                 [] made = "NotFound" /\ invocations[i].pc = "mkdir" ->
                      /\ Goes(i, "mkdir parent", <<>>)
                      /\ UNCHANGED dirs
                 [] OTHER ->
                      /\ Goes(i, "is_dir", [raced |-> TRUE])
                      /\ UNCHANGED dirs
        /\ UNCHANGED <<run_vars, fn_vars>>

\* fs::create_dir_all of the parent: mkdir of target, which another
\* invocation may have made
MkdirParent ==
    \E i \in Invocations :
        /\ invocations[i].pc = "mkdir parent"
        /\ dirs' = dirs \cup {TargetDir}
        /\ Goes(i, "mkdir again", [raced |-> invocations[i].raced \/ TargetDir \in dirs])
        /\ UNCHANGED <<run_vars, fn_vars>>

\* fs::create_dir_all after a failed mkdir: path.is_dir(); lines 379-380: an
\* error is returned with `?`
IsDir ==
    \E i \in Invocations :
        /\ invocations[i].pc = "is_dir"
        /\ LET created == mkdir_failed(TraceDir \in dirs)
           IN  IF created.ok THEN Goes(i, "name", <<>>)
               ELSE Goes(i, "done", [returned |-> Some(created)])
        /\ UNCHANGED <<run_vars, fn_vars, dirs>>

\* lines 383-396: the trace file is named and its path returned
NameTrace ==
    \E i \in Invocations :
        /\ invocations[i].pc = "name"
        /\ LET named == trace_filename("/p/target/debug/tries",
                                       invocations[i].template_name, invocations[i].now)
           IN  Goes(i, "done",
                    [returned |->
                        Some(IF named.ok
                             THEN Ok(PathJoin(trace_dir_of(WorkspaceRoot), named.val))
                             ELSE named)])
        /\ UNCHANGED <<run_vars, fn_vars, dirs>>

NextRace ==
    \/ CheckExists
    \/ Mkdir
    \/ MkdirParent
    \/ IsDir
    \/ NameTrace

SpecRace == InitRace /\ [][NextRace]_vars

\* ------------------------------------------------------ claims on the run

Finished == pc \in {"exit", "done"}

HasEvent(cmd) == \E i \in DOMAIN events : events[i].cmd = cmd

DetectionFailed == Finished /\ xctrace_tool = None
ListingFailed == catalog # None /\ ~catalog.val.ok
BuildFailed == target_filepath # None /\ ~target_filepath.val.ok
ProfilingFailed == trace_filepath # None /\ ~trace_filepath.val.ok

\* C1: whenever a step of the run fails (tool detection, template listing,
\* build or artifact selection, trace-path planning or the profiling
\* subprocess), run returns an error and the process exits with a non-zero
\* status.
C1_FailedStepFailsRun ==
    (Finished /\ (DetectionFailed \/ ListingFailed \/ BuildFailed \/ ProfilingFailed))
    => /\ ~result.val.ok
       /\ pc = "done" => exit_code.val # 0

\* C2: the trace file is opened only after the profiling subprocess exited
\* successfully and only when --no-open is not set; when the profiling
\* subprocess fails the run stops: nothing is reported or opened after it.
C2_OpenOnlyAfterSuccess ==
    /\ \A i \in DOMAIN events :
         events[i].cmd = "open"
         => /\ ~app_config.no_open
            /\ \E j \in 1..(i - 1) : events[j] = Ran("profiler", "success")
    /\ \A j \in DOMAIN events :
         (events[j].cmd = "profiler" /\ events[j].status # "success")
         => /\ Finished
            /\ \A i \in (j + 1)..Len(events) : events[i] = Printed("Failed")

C2_Witness ==
    /\ pc = "done"
    /\ events[Len(events)] = Ran("open", "success")
    /\ \E j \in DOMAIN events : events[j] = Ran("profiler", "success")

\* C3: the profiling subprocess starts only after the build returned and one
\* artifact was selected; when the build or the artifact selection fails, no
\* trace path is planned, no profiling command is built or run, and the run
\* ends with a failure.
C3_ProfileOnlyAfterBuild ==
    /\ \A i \in DOMAIN events :
         events[i].cmd \in {"exists", "create_dir_all", "ps", "profiler"}
         => /\ \E j \in 1..(i - 1) : events[j] = Ran("compile", "success")
            /\ target_filepath # None /\ target_filepath.val.ok
    /\ trace_filepath # None => (target_filepath # None /\ target_filepath.val.ok)
    /\ BuildFailed
       => /\ trace_filepath = None
          /\ ~HasEvent("exists") /\ ~HasEvent("create_dir_all")
          /\ ~HasEvent("ps") /\ ~HasEvent("profiler")
          /\ command = None
          /\ Finished
          /\ ~result.val.ok
          /\ pc = "done" => exit_code.val # 0

\* the build returned outputs, and no single artifact could be selected
C3_Witness ==
    /\ pc = "done"
    /\ BuildFailed
    /\ HasEvent("compile")
    /\ events[Len(events) - 1] = Ran("compile", "success")

\* C4: when templates are to be listed, the run detects the tool, lists the
\* templates with the command of the detected variant, prints the catalog and
\* stops: no build, no trace path, no profiling, no opening; and nothing is
\* listed when the detection fails.
C4_ListAndStop ==
    app_config.list_templates
    => /\ \A i \in DOMAIN events :
            \/ i = 1 /\ events[i].cmd = "sw_vers"
            \/ /\ i = 2
               /\ xctrace_tool # None
               /\ xctrace_tool.val = "XcTrace"
                  => events[i].cmd = "xcrun xctrace list templates"
               /\ xctrace_tool.val = "InstrumentsBinary"
                  => events[i].cmd = "instruments -s templates"
               /\ events[i].cmd \in {"xcrun xctrace list templates",
                                     "instruments -s templates"}
            \/ i = 3 /\ events[i] = Printed("catalog") /\ catalog.val.ok
       /\ Len(events) >= 2 => Finished
       /\ workspace = None /\ cargo_options = None
       /\ target_filepath = None /\ trace_filepath = None
       /\ (Finished /\ xctrace_tool # None)
          => (Len(events) >= 2 /\ (catalog.val.ok <=> Len(events) = 3))

C4_Witness ==
    /\ app_config.list_templates
    /\ pc = "done"
    /\ xctrace_tool = Some("XcTrace")
    /\ Len(events) = 3
    /\ catalog.val.ok

\* C9: for a named target that the project does not declare under its kind,
\* the build collaborator is never invoked, and the run fails.
C9_MissingTargetNeverBuilt ==
    (/\ cargo_options # None
     /\ cargo_options.val.target.kind # "Main"
     /\ Declared(cargo_options.val.target.kind, cargo_options.val.target.name)
           \notin workspace.val)
    => /\ ~HasEvent("compile")
       /\ Finished => ~result.val.ok

\* the arguments after the target's path in the profiling command
ForwardedIn(args, target_path) ==
    LET at == CHOOSE k \in DOMAIN args :
                 /\ args[k] = target_path
                 /\ \A j \in DOMAIN args : args[j] = target_path => k <= j
    IN  Drop(args, at)

\* C19: for a Test(harness, test) target the test name (empty when only the
\* harness was named) is put before the arguments the user gave, which keep
\* their order, and for any other target the arguments stay as given; the
\* profiled program is run with just these arguments.
C19_TestNameForwarded ==
    [][ /\ app_config'.target_args =
             IF pc = "build" /\ pc' = "profile" /\ cargo_options.val.target.kind = "Test"
             THEN <<cargo_options.val.target.test>> \o app_config.target_args
             ELSE app_config.target_args
        /\ (command' # command)
           => ForwardedIn(command'.val, target_filepath.val.val) = app_config.target_args
      ]_vars

\* a harness named without a test, and two arguments: the program is run
\* with the empty name before them
C19_Witness ==
    /\ command # None
    /\ cargo_options.val.target = Test("a", "")
    /\ target_filepath.val.val = "/t/a-1"
    /\ ForwardedIn(command.val, "/t/a-1") = <<"", "x", "-y">>

\* ------------------------------------------------ claims on the functions

Called(fn) == call # None /\ call.fn = fn /\ ret # None

\* the version `sw_vers` reported, and whether it is at least 10.15.0 in
\* semver's order: by its numbers, a pre-release of 10.15.0 coming before it
ReportedVersion == get_macos_version(call.sw)
AtLeastCatalina ==
    LET v == ReportedVersion.val
        number == (v.major * 100 + v.minor) * 100 + v.patch
    IN  number > 101500 \/ (number = 101500 /\ v.pre = <<>>)

\* C5: detect returns XcTrace exactly when the version is at least 10.15.0
\* and the command line tools' git exists, InstrumentsBinary exactly when the
\* version is below 10.15.0 and /usr/bin/instruments exists, and fails with
\* the install diagnostic for every other version and probe results.
C5_DetectByVersionAndProbe ==
    (Called("detect") /\ ReportedVersion.ok)
    => /\ ret.val = Ok("XcTrace") <=> (AtLeastCatalina /\ call.fs.clt_git)
       /\ ret.val = Ok("InstrumentsBinary")
            <=> (~AtLeastCatalina /\ call.fs.instruments_app)
       /\ ret.val \in {Ok("XcTrace"), Ok("InstrumentsBinary"), Err(NotInstalled)}

\* a recent macOS without the command line tools but with the legacy binary
C5_Witness ==
    /\ Called("detect")
    /\ ReportedVersion.ok
    /\ AtLeastCatalina
    /\ ~call.fs.clt_git
    /\ call.fs.instruments_app
    /\ ret.val = Err(NotInstalled)

\* the '.'-separated components of a version text, the white space around
\* the text aside
ComponentsOf(version) == Split(Trim(version), ".")
IsNumber(component) == component # <<>> /\ Range(component) \subseteq Digits
NumberAt(components, i) == IF i <= Len(components) THEN Decimal(components[i]) ELSE 0

\* C6: a version text of one, two or three numeric components parses to the
\* triple of its numbers, the missing ones zero; a text of more than three
\* components, or with a component that is empty or not numeric, fails.
C6_VersionParsing ==
    Called("semver_from_utf8")
    => LET cs == ComponentsOf(call.version)
       IN  IF Len(cs) <= 3 /\ \A i \in DOMAIN cs : IsNumber(cs[i])
           THEN /\ ret.val.ok
                /\ ret.val.val.major = NumberAt(cs, 1)
                /\ ret.val.val.minor = NumberAt(cs, 2)
                /\ ret.val.val.patch = NumberAt(cs, 3)
           ELSE ~ret.val.ok

\* C7: neither parser returns a catalog without standard templates, and a
\* listing command that did not succeed gives an error whatever it printed.
C7_StandardTemplatesNeverEmpty ==
    (Called("parse_xctrace_template_list") \/ Called("parse_instruments_template_list"))
    => /\ ret.val.ok => ret.val.val.standard_templates # <<>>
       /\ call.out.status # "success" => ~ret.val.ok

\* a listing that was printed with success and holds no standard template
C7_Witness ==
    /\ Called("parse_instruments_template_list")
    /\ call.out.status = "success"
    /\ Len(Lines(call.out.stdout)) >= 2
    /\ ret.val = Err(NoTemplates)

\* the selectors by falling precedence, and the target each stands for
SelectorOrder == <<"example", "bin", "bench", "harness">>
KindOf(selector) ==
    CASE selector = "example" -> "Example" [] selector = "bin" -> "Bin"
      [] selector = "bench" -> "Bench" [] selector = "harness" -> "Test"

\* C8: the resolved target is that of the present selector of highest
\* precedence (example, bin, bench, harness), with that selector's name, and
\* Main when none of the four is present, a test name notwithstanding.
C8_TargetPrecedence ==
    Called("get_target")
    => LET present == {i \in 1..4 : call.cfg[SelectorOrder[i]].some}
       IN  IF present = {} THEN ret.val = Main
           ELSE LET first == CHOOSE i \in present : \A j \in present : i <= j
                IN  /\ ret.val.kind = KindOf(SelectorOrder[first])
                    /\ ret.val.name = call.cfg[SelectorOrder[first]].val
                    /\ ret.val.kind = "Test"
                       => ret.val.test = (IF call.cfg.test.some
                                          THEN call.cfg.test.val ELSE "")

\* --example and --bin both given
C8_Witness ==
    /\ Called("get_target")
    /\ call.cfg.example.some
    /\ call.cfg.bin.some
    /\ ret.val = Example(call.cfg.example.val)

\* C10: for Bench and Test the artifact is the path of the first test-like
\* output named like the bench or harness, whatever the binaries are, and an
\* error when there is none; for Main, Bin and Example it is the path of the
\* only binary, "no targets found" without binaries, and an error naming every
\* binary when there are several.
C10_ArtifactSelection ==
    (Called("build_target") /\ call.compiled.ok)
    => LET tests == call.compiled.val.tests
           binaries == call.compiled.val.binaries
           matching == {i \in DOMAIN tests : tests[i].name = call.target.name}
       IN  IF call.target.kind \in {"Bench", "Test"}
           THEN IF matching = {} THEN ~ret.val.ok
                ELSE \E i \in matching :
                        /\ \A j \in matching : i <= j
                        /\ ret.val = Ok(tests[i].path)
           ELSE /\ Len(binaries) = 1 => ret.val = Ok(binaries[1].path)
                /\ Len(binaries) = 0 => ret.val = Err(<<"no targets found">>)
                /\ Len(binaries) > 1
                   => /\ ~ret.val.ok
                      /\ \A i \in DOMAIN binaries :
                           \E k \in DOMAIN ret.val.err : ret.val.err[k] = binaries[i].name

\* two test-like outputs are named like the bench, at different paths
C10_Witness ==
    /\ Called("build_target")
    /\ call.compiled.ok
    /\ call.target.kind = "Bench"
    /\ LET tests == call.compiled.val.tests
       IN  /\ Len(tests) = 2
           /\ tests[1].name = call.target.name
           /\ tests[2].name = call.target.name
           /\ tests[1].path # tests[2].path
           /\ ret.val = Ok(tests[1].path)

\* the first word `ps` printed, as the device under /dev; None without one
TerminalOf(ps) ==
    LET words == SplitWhitespace(Chars(ps.stdout))
    IN  IF words = <<>> THEN None ELSE Some("/dev/" \o Str(words[1]))

\* C11: for xctrace the command is xcrun xctrace record --template <name>,
\* --time-limit <N>ms exactly when a limit is set, --output <trace>,
\* --target-stdin <tty> --target-stdout <tty> with the same device exactly
\* when `ps` named a terminal, --launch --, the target, and the forwarded
\* arguments in their order.
C11_XctraceCommand ==
    (/\ Called("profiling_command")
     /\ call.tool = "XcTrace"
     /\ call.ps.status # "io_error")
    => ret.val =
         Ok(<<"xcrun", "xctrace", "record", "--template", call.template_name>>
            \o (IF call.time_limit.some
                THEN <<"--time-limit", ToString(call.time_limit.val) \o "ms">>
                ELSE <<>>)
            \o <<"--output", call.trace_filepath>>
            \o (IF TerminalOf(call.ps).some
                THEN <<"--target-stdin", TerminalOf(call.ps).val,
                       "--target-stdout", TerminalOf(call.ps).val>>
                ELSE <<>>)
            \o <<"--launch", "--", call.target_filepath>>
            \o call.target_args)

\* a time limit, a terminal and two arguments
C11_Witness ==
    /\ Called("profiling_command")
    /\ call.tool = "XcTrace"
    /\ call.time_limit = Some(5000)
    /\ call.ps.stdout = "ttys001\n"
    /\ call.target_args = <<"-y", "x">>
    /\ ret.val.ok
    /\ Len(ret.val.val) = 18
    /\ ret.val.val[7] = "5000ms"
    /\ ret.val.val[11] = "/dev/ttys001"

XctraceFlags ==
    {"--template", "--time-limit", "--output", "--launch", "--target-stdin",
     "--target-stdout"}

C13_ExplicitPathVerbatim ==
    (Called("prepare_trace_filepath") /\ call.cfg.trace_filepath.some)
    => /\ ret.val.first.returned = Ok(call.cfg.trace_filepath.val)
       /\ ret.val.first.effects = <<>>
       /\ ret.val.second = ret.val.first

\* an explicit path while target/instruments is missing and cannot be created
C13_Witness ==
    /\ Called("prepare_trace_filepath")
    /\ call.cfg.trace_filepath = Some("/tmp/my trace")
    /\ ~call.dir_exists
    /\ ~call.dir_created
    /\ ret.val.first.returned = Ok("/tmp/my trace")

\* the file name the claim gives for an artifact, a template and a time
ExpectedTracePath(root, stem, dashed, time_text) ==
    root \o "/target/instruments/" \o stem \o "_" \o dashed \o "_" \o time_text
    \o ".trace"

\* C14: without an explicit output path the planned path is
\* <root>/target/instruments/<stem>_<template, spaces as dashes>_<time to the
\* millisecond>.trace, so that a second call for the same artifact and
\* template a millisecond later gives another file name.
C14_TimestampedTracePath ==
    (/\ Called("prepare_trace_filepath")
     /\ ~call.cfg.trace_filepath.some
     /\ call.dir_exists \/ call.dir_created)
    => /\ ret.val.first.returned =
            Ok(ExpectedTracePath(call.workspace_root, call.artifact.stem,
                                 call.template.dashed, call.now.text))
       /\ ret.val.second.returned =
            Ok(ExpectedTracePath(call.workspace_root, call.artifact.stem,
                                 call.template.dashed, call.now.next))
       /\ ret.val.first.returned # ret.val.second.returned

\* scenario D: tries, Time Profiler, 2024-01-01 12:00:00.001
C14_Witness ==
    /\ Called("prepare_trace_filepath")
    /\ call.artifact.stem = "tries"
    /\ call.template.name = "Time Profiler"
    /\ call.workspace_root = "/p"
    /\ ret.val.first.returned =
         Ok("/p/target/instruments/tries_Time-Profiler_2024-01-01_120000-001.trace")
    /\ ret.val.second.returned =
         Ok("/p/target/instruments/tries_Time-Profiler_2024-01-01_120000-002.trace")

\* C15: each alias resolves to the template whose abbreviation it is (time,
\* alloc, io, sys: Time Profiler, Allocations, File Activity, System Trace),
\* and every other name, a full template name included, to itself.
C15_ResolveAlias ==
    Called("resolve_template_name")
    => /\ call.name = "time" => ret.val = "Time Profiler"
       /\ call.name = "alloc" => ret.val = "Allocations"
       /\ call.name = "io" => ret.val = "File Activity"
       /\ call.name = "sys" => ret.val = "System Trace"
       /\ call.name \notin {"time", "alloc", "io", "sys"} => ret.val = call.name
       /\ \A full \in TemplateNames :
            abbrev_name(full) = Some(call.name) => ret.val = full

\* the alias of File Activity
C15_Witness ==
    /\ Called("resolve_template_name")
    /\ call.name = "io"
    /\ ret.val = "File Activity"
    /\ abbrev_name(ret.val) = Some("io")


\* the lines of the listing the xctrace parser reads, trimmed
ListingLines(out) ==
    LET raw == Lines(IF out.stdout = <<>> THEN out.stderr ELSE out.stdout)
    IN  [i \in DOMAIN raw |-> Trim(raw[i])]

IsMarker(line) == StartsWith(line, <<"=">>)

\* the groups the claim describes: what precedes the first section marker is
\* skipped, the lines up to the next marker or blank line are the standard
\* templates, and the non-empty lines after them that are no markers are the
\* custom ones
GroupsBySection(lines) ==
    LET before == LeadingTrue([i \in DOMAIN lines |-> ~IsMarker(lines[i])])
        after == Drop(lines, before + 1)
        n == LeadingTrue([i \in DOMAIN after |->
                             ~IsMarker(after[i]) /\ after[i] # <<>>])
    IN  [standard_templates |-> SubSeq(after, 1, n),
         custom_templates |->
            SelectSeq(Drop(after, n), LAMBDA l : l # <<>> /\ ~IsMarker(l))]

\* C16: the xctrace parser skips the lines before the first section marker,
\* takes the lines up to the next marker or blank line as standard templates
\* and all later non-empty lines as custom templates, in the order of the
\* listing; no marker and no empty line is ever a template name.
C16_XctraceGrouping ==
    (/\ Called("parse_xctrace_template_list")
     /\ call.out.status = "success"
     /\ ret.val.ok)
    => /\ ret.val.val = GroupsBySection(ListingLines(call.out))
       /\ \A name \in Range(ret.val.val.standard_templates)
                      \cup Range(ret.val.val.custom_templates) :
            name # <<>> /\ ~IsMarker(name)

\* the lines of the listing the instruments parser reads, trimmed and
\* without their quotes
UnquotedLines(out) ==
    LET raw == Lines(out.stdout)
    IN  [i \in DOMAIN raw |-> TrimSet(Trim(raw[i]), {"\""})]

IsUserTemplate(line) == StartsWith(line, UserTemplatePrefix)

\* C17: the instruments parser skips the header, takes the unquoted lines up
\* to the first user template path as standard templates, and from that line
\* on the base name of each line, without directory and extension, as custom
\* templates; no path is a standard template and no line before the first
\* path is a custom one.
C17_LegacyGrouping ==
    (/\ Called("parse_instruments_template_list")
     /\ call.out.status = "success")
    => LET after == Drop(UnquotedLines(call.out), 1)
           k == LeadingTrue([i \in DOMAIN after |-> ~IsUserTemplate(after[i])])
           paths == Drop(after, k)
       IN  k > 0
           => /\ ret.val.ok
              /\ ret.val.val.standard_templates = SubSeq(after, 1, k)
              /\ Len(ret.val.val.custom_templates) = Len(paths)
              /\ \A i \in DOMAIN paths :
                    file_stem(paths[i]) = Some(ret.val.val.custom_templates[i])
              /\ \A name \in Range(ret.val.val.standard_templates) :
                    ~IsUserTemplate(name)

\* C18: two invocations that plan a trace file at once, in a project
\* without target/instruments, both succeed whatever the order of their
\* steps is: a directory the other one made in between is no error, and the
\* directory exists once either has returned.
C18_ConcurrentPlanning ==
    \A i \in Invocations :
        invocations[i].pc = "done"
        => /\ invocations[i].returned.val.ok
           /\ TraceDir \in dirs

\* both invocations found the directory missing, one of them lost the race
\* for creating it, and both returned a path
C18_Witness ==
    /\ \A i \in Invocations :
          /\ invocations[i].pc = "done"
          /\ ~invocations[i].found
          /\ invocations[i].returned.val.ok
    /\ \E i \in Invocations : invocations[i].raced
    /\ TraceDir \in dirs

====
